---- MODULE Spec2Model ----
(***************************************************************************)
(* The bootstrap of zero2prod (src/main.rs):                               *)
(*                                                                         *)
(*   #[tokio::main]                                                        *)
(*   async fn main() -> Result<(), std::io::Error> {                       *)
(*       let listener = TcpListener::bind("127.0.0.1:800")                 *)
(*           .expect("Failed to bind to port");                            *)
(*       run(listener)?.await                                              *)
(*   }                                                                     *)
(*                                                                         *)
(* One invocation of main is a small sequential process: bind, call run,   *)
(* await the server unit, return.  What the operating system answers to    *)
(* bind, what run answers and how the server unit resolves are the         *)
(* environment of an invocation; they are drawn in Init and never change.  *)
(* Two invocations are modelled side by side so that statements comparing  *)
(* two runs of the program can be checked.                                 *)
(***************************************************************************)
EXTENDS Naturals, Sequences, FiniteSets

\* The invocations of the program that are compared with each other.
Runs == {1, 2}

\* The number of connections after which the model stops counting accepts.
MaxAccepted == 2

\* std::io::ErrorKind, as far as the model distinguishes errors.
ErrorKinds == {"AddrInUse", "PermissionDenied", "Other"}

\* std::io::Error values.
IoError == [kind : ErrorKinds]

\* Result<_, std::io::Error>.
Ok == [tag |-> "Ok"]
Err(e) == [tag |-> "Err", err |-> e]
IoResult == {Ok} \cup {Err(e) : e \in IoError}

\* A server unit that stays pending for ever.
Never == [tag |-> "Never"]

\* The outcome of a process that has not ended.
None == [tag |-> "None"]

\* The outcome of a process that panicked with message m.
Panic(m) == [tag |-> "Panic", msg |-> m]

\* The message of the expect on the bind result.
ExpectMsg == "Failed to bind to port"

\* The environment of one invocation: whether 127.0.0.1:800 can be bound,
\* what run(listener) returns, and how the server unit resolves once awaited.
Env == [addrFree : BOOLEAN, construct : IoResult, serve : IoResult \cup {Never}]

VARIABLES
    env,         \* env[r]: the environment of invocation r
    pc,          \* pc[r]: where main is: NotStarted, Bound, Awaiting, Terminated
    listener,    \* listener[r]: who owns the listener: none, driver, moved
    nBind,       \* nBind[r]: calls of TcpListener::bind
    nListeners,  \* nListeners[r]: listeners created
    nRun,        \* nRun[r]: calls of run, each one a move of the listener
    unit,        \* unit[r]: the server unit: none, running, resolved
    unitResult,  \* unitResult[r]: what the server unit resolved to
    accepted,    \* accepted[r]: connections accepted by the server unit
    outcome,     \* outcome[r]: how the process ended
    trace        \* trace[r]: the steps main has taken

vars == <<env, pc, listener, nBind, nListeners, nRun, unit, unitResult,
          accepted, outcome, trace>>

TypeOK ==
    /\ env \in [Runs -> Env]
    /\ pc \in [Runs -> {"NotStarted", "Bound", "Awaiting", "Terminated"}]
    /\ listener \in [Runs -> {"none", "driver", "moved"}]
    /\ nBind \in [Runs -> 0..1]
    /\ nListeners \in [Runs -> 0..1]
    /\ nRun \in [Runs -> 0..1]
    /\ unit \in [Runs -> {"none", "running", "resolved"}]
    /\ unitResult \in [Runs -> IoResult \cup {None}]
    /\ accepted \in [Runs -> 0..MaxAccepted]
    /\ outcome \in [Runs -> IoResult \cup {None, Panic(ExpectMsg)}]

Init ==
    /\ env \in [Runs -> Env]
    /\ pc = [r \in Runs |-> "NotStarted"]
    /\ listener = [r \in Runs |-> "none"]
    /\ nBind = [r \in Runs |-> 0]
    /\ nListeners = [r \in Runs |-> 0]
    /\ nRun = [r \in Runs |-> 0]
    /\ unit = [r \in Runs |-> "none"]
    /\ unitResult = [r \in Runs |-> None]
    /\ accepted = [r \in Runs |-> 0]
    /\ outcome = [r \in Runs |-> None]
    /\ trace = [r \in Runs |-> <<>>]

\* The conversion the ? operator applies to the error of run(listener):
\* From<std::io::Error> for std::io::Error, the reflexive impl.
QuestionMark(e) == e

\* Bind with the failure ignored: main goes on without a listener.
BindUnchecked(r) ==
    /\ pc[r] = "NotStarted"
    /\ nBind' = [nBind EXCEPT ![r] = @ + 1]
    /\ pc' = [pc EXCEPT ![r] = "Bound"]
    /\ trace' = [trace EXCEPT ![r] = Append(@, "bind")]
    /\ IF env[r].addrFree
       THEN /\ nListeners' = [nListeners EXCEPT ![r] = @ + 1]
            /\ listener' = [listener EXCEPT ![r] = "driver"]
       ELSE UNCHANGED <<nListeners, listener>>
    /\ UNCHANGED <<env, nRun, unit, unitResult, accepted, outcome>>

\* Bind in a retry loop: a failed bind is attempted again.
BindRetry(r) ==
    /\ pc[r] = "NotStarted"
    /\ nBind' = [nBind EXCEPT ![r] = @ + 1]
    /\ IF env[r].addrFree
       THEN /\ nListeners' = [nListeners EXCEPT ![r] = @ + 1]
            /\ listener' = [listener EXCEPT ![r] = "driver"]
            /\ pc' = [pc EXCEPT ![r] = "Bound"]
            /\ trace' = [trace EXCEPT ![r] = Append(@, "bind")]
       ELSE UNCHANGED <<nListeners, listener, pc, trace>>
    /\ UNCHANGED <<env, nRun, unit, unitResult, accepted, outcome>>

\* Bind behind a lock file that an earlier invocation leaves behind.
BindLockFile(r) ==
    /\ pc[r] = "NotStarted"
    /\ nBind' = [nBind EXCEPT ![r] = @ + 1]
    /\ IF env[r].addrFree /\ \A q \in Runs : nListeners[q] = 0
       THEN /\ nListeners' = [nListeners EXCEPT ![r] = @ + 1]
            /\ listener' = [listener EXCEPT ![r] = "driver"]
            /\ pc' = [pc EXCEPT ![r] = "Bound"]
            /\ trace' = [trace EXCEPT ![r] = Append(@, "bind")]
            /\ UNCHANGED outcome
       ELSE /\ pc' = [pc EXCEPT ![r] = "Terminated"]
            /\ outcome' = [outcome EXCEPT ![r] = Panic(ExpectMsg)]
            /\ trace' = [trace EXCEPT ![r] = Append(@, "panic")]
            /\ UNCHANGED <<nListeners, listener>>
    /\ UNCHANGED <<env, nRun, unit, unitResult, accepted>>

\* Bind with ? in place of expect: the bind error is returned by main.
BindPropagates(r) ==
    /\ pc[r] = "NotStarted"
    /\ nBind' = [nBind EXCEPT ![r] = @ + 1]
    /\ IF env[r].addrFree
       THEN /\ nListeners' = [nListeners EXCEPT ![r] = @ + 1]
            /\ listener' = [listener EXCEPT ![r] = "driver"]
            /\ pc' = [pc EXCEPT ![r] = "Bound"]
            /\ trace' = [trace EXCEPT ![r] = Append(@, "bind")]
            /\ UNCHANGED outcome
       ELSE /\ pc' = [pc EXCEPT ![r] = "Terminated"]
            /\ outcome' = [outcome EXCEPT ![r] = Err([kind |-> "AddrInUse"])]
            /\ trace' = [trace EXCEPT ![r] = Append(@, "return")]
            /\ UNCHANGED <<nListeners, listener>>
    /\ UNCHANGED <<env, nRun, unit, unitResult, accepted>>

\* let listener = TcpListener::bind("127.0.0.1:800").expect("Failed to bind to port");
Bind(r) ==
    /\ pc[r] = "NotStarted"
    /\ nBind' = [nBind EXCEPT ![r] = @ + 1]
    /\ IF env[r].addrFree
       THEN /\ nListeners' = [nListeners EXCEPT ![r] = @ + 1]
            /\ listener' = [listener EXCEPT ![r] = "driver"]
            /\ pc' = [pc EXCEPT ![r] = "Bound"]
            /\ trace' = [trace EXCEPT ![r] = Append(@, "bind")]
            /\ UNCHANGED outcome
       ELSE /\ pc' = [pc EXCEPT ![r] = "Terminated"]
            /\ outcome' = [outcome EXCEPT ![r] = Panic(ExpectMsg)]
            /\ trace' = [trace EXCEPT ![r] = Append(@, "panic")]
            /\ UNCHANGED <<nListeners, listener>>
    /\ UNCHANGED <<env, nRun, unit, unitResult, accepted>>

\* run(listener) with its error ignored: a server unit is driven anyway.
RunCallIgnoresErr(r) ==
    /\ pc[r] = "Bound"
    /\ nRun' = [nRun EXCEPT ![r] = @ + 1]
    /\ listener' = [listener EXCEPT ![r] = "moved"]
    /\ unit' = [unit EXCEPT ![r] = "running"]
    /\ pc' = [pc EXCEPT ![r] = "Awaiting"]
    /\ trace' = [trace EXCEPT ![r] = Append(@, "await")]
    /\ UNCHANGED <<env, nBind, nListeners, unitResult, accepted, outcome>>

\* run(listener.try_clone()): the driver keeps its listener.
RunCallKeepsListener(r) ==
    /\ pc[r] = "Bound"
    /\ nRun' = [nRun EXCEPT ![r] = @ + 1]
    /\ IF env[r].construct.tag = "Ok"
       THEN /\ unit' = [unit EXCEPT ![r] = "running"]
            /\ pc' = [pc EXCEPT ![r] = "Awaiting"]
            /\ trace' = [trace EXCEPT ![r] = Append(@, "await")]
            /\ UNCHANGED outcome
       ELSE /\ pc' = [pc EXCEPT ![r] = "Terminated"]
            /\ outcome' = [outcome EXCEPT ![r] = Err(env[r].construct.err)]
            /\ trace' = [trace EXCEPT ![r] = Append(@, "return")]
            /\ UNCHANGED unit
    /\ UNCHANGED <<env, listener, nBind, nListeners, unitResult, accepted>>

\* run(listener)? and, on Ok, the start of the await on the server unit.
RunCall(r) ==
    /\ pc[r] = "Bound"
    /\ nRun' = [nRun EXCEPT ![r] = @ + 1]
    /\ listener' = [listener EXCEPT ![r] = "moved"]
    /\ IF env[r].construct.tag = "Ok"
       THEN /\ unit' = [unit EXCEPT ![r] = "running"]
            /\ pc' = [pc EXCEPT ![r] = "Awaiting"]
            /\ trace' = [trace EXCEPT ![r] = Append(@, "await")]
            /\ UNCHANGED outcome
       ELSE /\ pc' = [pc EXCEPT ![r] = "Terminated"]
            /\ outcome' = [outcome EXCEPT ![r] = Err(QuestionMark(env[r].construct.err))]
            /\ trace' = [trace EXCEPT ![r] = Append(@, "return")]
            /\ UNCHANGED unit
    /\ UNCHANGED <<env, nBind, nListeners, unitResult, accepted>>

\* The server unit, while it is driven, accepts a connection.
Accept(r) ==
    /\ unit[r] = "running"
    /\ accepted[r] < MaxAccepted
    /\ accepted' = [accepted EXCEPT ![r] = @ + 1]
    /\ UNCHANGED <<env, pc, listener, nBind, nListeners, nRun, unit,
                   unitResult, outcome, trace>>

\* The server unit resolves, to success or to an I/O error.
UnitResolve(r) ==
    /\ unit[r] = "running"
    /\ env[r].serve # Never
    /\ unit' = [unit EXCEPT ![r] = "resolved"]
    /\ unitResult' = [unitResult EXCEPT ![r] = env[r].serve]
    /\ UNCHANGED <<env, pc, listener, nBind, nListeners, nRun, accepted,
                   outcome, trace>>

\* The await with map_err: an error of the unit is wrapped in a new one.
AwaitReturnWraps(r) ==
    /\ pc[r] = "Awaiting"
    /\ unit[r] = "resolved"
    /\ pc' = [pc EXCEPT ![r] = "Terminated"]
    /\ outcome' = [outcome EXCEPT ![r] =
                      IF unitResult[r].tag = "Err"
                      THEN Err([kind |-> "Other"]) ELSE unitResult[r]]
    /\ trace' = [trace EXCEPT ![r] = Append(@, "return")]
    /\ UNCHANGED <<env, listener, nBind, nListeners, nRun, unit, unitResult,
                   accepted>>

\* The await with its value dropped: main returns Ok(()) whatever the unit did.
AwaitReturnSwallows(r) ==
    /\ pc[r] = "Awaiting"
    /\ unit[r] = "resolved"
    /\ pc' = [pc EXCEPT ![r] = "Terminated"]
    /\ outcome' = [outcome EXCEPT ![r] = Ok]
    /\ trace' = [trace EXCEPT ![r] = Append(@, "return")]
    /\ UNCHANGED <<env, listener, nBind, nListeners, nRun, unit, unitResult,
                   accepted>>

\* The unit spawned and not awaited: main returns Ok(()) while it still runs.
AwaitReturnEarly(r) ==
    /\ pc[r] = "Awaiting"
    /\ unit[r] # "none"
    /\ pc' = [pc EXCEPT ![r] = "Terminated"]
    /\ outcome' = [outcome EXCEPT ![r] = Ok]
    /\ trace' = [trace EXCEPT ![r] = Append(@, "return")]
    /\ UNCHANGED <<env, listener, nBind, nListeners, nRun, unit, unitResult,
                   accepted>>

\* A supervisor: a unit that failed is constructed again.
AwaitReturnRestarts(r) ==
    /\ pc[r] = "Awaiting"
    /\ unit[r] = "resolved"
    /\ IF unitResult[r].tag = "Err"
       THEN /\ pc' = [pc EXCEPT ![r] = "Bound"]
            /\ UNCHANGED <<outcome, trace>>
       ELSE /\ pc' = [pc EXCEPT ![r] = "Terminated"]
            /\ outcome' = [outcome EXCEPT ![r] = unitResult[r]]
            /\ trace' = [trace EXCEPT ![r] = Append(@, "return")]
    /\ UNCHANGED <<env, listener, nBind, nListeners, nRun, unit, unitResult,
                   accepted>>

\* The await completes: its value is the value of main.
AwaitReturn(r) ==
    /\ pc[r] = "Awaiting"
    /\ unit[r] = "resolved"
    /\ pc' = [pc EXCEPT ![r] = "Terminated"]
    /\ outcome' = [outcome EXCEPT ![r] = unitResult[r]]
    /\ trace' = [trace EXCEPT ![r] = Append(@, "return")]
    /\ UNCHANGED <<env, listener, nBind, nListeners, nRun, unit, unitResult,
                   accepted>>

Next ==
    \E r \in Runs :
        \/ Bind(r)
        \/ RunCall(r)
        \/ Accept(r)
        \/ UnitResolve(r)
        \/ AwaitReturn(r)

Spec == Init /\ [][Next]_vars

\* The runtime keeps polling main: once the awaited unit has resolved, the
\* await returns.
LiveSpec == Spec /\ \A r \in Runs : WF_vars(AwaitReturn(r))

(***************************************************************************)
(* What the environment of an invocation did to it, read off its history.  *)
(***************************************************************************)
BindFailed(r) == nBind[r] > 0 /\ ~env[r].addrFree
ConstructFailed(r) == nRun[r] > 0 /\ env[r].construct.tag = "Err"
UnitFailed(r) == unitResult[r].tag = "Err"
IsFailure(o) == o.tag \in {"Err", "Panic"}
Awaited(r) == \E i \in 1..Len(trace[r]) : trace[r][i] = "await"
IsPrefix(s, t) == Len(s) <= Len(t) /\ SubSeq(t, 1, Len(s)) = s

\* The three states of the spec's state machine: the await is the tail of
\* Bound's "construction + run".
SpecState(p) == IF p = "Awaiting" THEN "Bound" ELSE p
Rank(p) == CASE p = "NotStarted" -> 0 [] p = "Bound" -> 1 [] p = "Awaiting" -> 2
             [] p = "Terminated" -> 3

\* C1: run(listener) is called only after TcpListener::bind has succeeded: in
\* no reachable state has run been called while main is still NotStarted,
\* without a listener having been created, or after the bind has failed.
C1_BindPrecedesRun ==
    \A r \in Runs :
        nRun[r] > 0 =>
            /\ nBind[r] = 1
            /\ nListeners[r] = 1
            /\ env[r].addrFree
            /\ pc[r] # "NotStarted"
            /\ outcome[r].tag # "Panic"

C1_Witness == \E r \in Runs : nRun[r] = 1 /\ nBind[r] = 1 /\ pc[r] = "Awaiting"

\* C2: once the bind of the fixed address has failed, the process has ended
\* (at that very step) in a failure outcome, run has not been called, and no
\* server unit exists, has resolved or has accepted anything.
C2_BindFailureEndsProcess ==
    \A r \in Runs :
        BindFailed(r) =>
            /\ pc[r] = "Terminated"
            /\ IsFailure(outcome[r])
            /\ nRun[r] = 0
            /\ listener[r] = "none"
            /\ unit[r] = "none"
            /\ unitResult[r] = None
            /\ accepted[r] = 0
            /\ ~Awaited(r)

C2_Witness ==
    \E r \in Runs : ~env[r].addrFree /\ nBind[r] = 1 /\ pc[r] = "Terminated"

\* C3: once run(listener) has returned a construction error, the process has
\* ended with an error outcome, no server unit exists, it was never awaited,
\* and the number of accepted connections is zero.
C3_ConstructionFailureNoAccept ==
    \A r \in Runs :
        ConstructFailed(r) =>
            /\ pc[r] = "Terminated"
            /\ outcome[r].tag = "Err"
            /\ unit[r] = "none"
            /\ unitResult[r] = None
            /\ ~Awaited(r)
            /\ accepted[r] = 0

C3_Witness ==
    \E r \in Runs :
        /\ nRun[r] = 1 /\ env[r].construct.tag = "Err" /\ pc[r] = "Terminated"
        /\ env[r].serve.tag = "Ok"

\* C4: when the awaited server unit resolved to an I/O error e, main returns
\* Err(e) with that same e; when run returned a construction error e, main
\* returns Err(e) with that same e.
C4_ExactErrorSurfaced ==
    \A r \in Runs :
        pc[r] = "Terminated" =>
            /\ UnitFailed(r) => outcome[r] = Err(unitResult[r].err)
            /\ UnitFailed(r) => outcome[r] = env[r].serve
            /\ ConstructFailed(r) => outcome[r] = Err(env[r].construct.err)

C4_Witness ==
    \E r1, r2 \in Runs :
        /\ pc[r1] = "Terminated" /\ UnitFailed(r1)
        /\ unitResult[r1].err.kind = "AddrInUse"
        /\ pc[r2] = "Terminated" /\ ConstructFailed(r2)
        /\ env[r2].construct.err.kind = "PermissionDenied"

\* C5: main ends with Ok only if the bind succeeded, the construction
\* succeeded and the server unit resolved to Ok; a process that has ended
\* after its bind, its construction or its server unit failed has ended in a
\* failure.
C5_OutcomeMirrorsUnit ==
    \A r \in Runs :
        /\ outcome[r] = Ok =>
              /\ pc[r] = "Terminated"
              /\ env[r].addrFree /\ nListeners[r] = 1
              /\ nRun[r] = 1 /\ env[r].construct = Ok
              /\ unit[r] = "resolved" /\ unitResult[r] = Ok
        /\ pc[r] = "Terminated" =>
              /\ outcome[r] # None
              /\ (BindFailed(r) \/ ConstructFailed(r) \/ UnitFailed(r))
                    => IsFailure(outcome[r])
              /\ unitResult[r] = Ok => outcome[r] = Ok

C5_Witness ==
    \E r1, r2 \in Runs :
        /\ outcome[r1] = Ok
        /\ pc[r2] = "Terminated" /\ UnitFailed(r2)

\* C6: at most one listener is created, at most one bind is attempted and at
\* most one transfer of the listener to run occurs, exactly one of each once
\* the server unit exists; once transferred the listener is no longer the
\* driver's.
C6_OneListenerOneTransfer ==
    \A r \in Runs :
        /\ nBind[r] <= 1
        /\ nListeners[r] <= 1
        /\ nRun[r] <= 1
        /\ nRun[r] <= nListeners[r]
        /\ unit[r] # "none" => nListeners[r] = 1 /\ nRun[r] = 1
        /\ nRun[r] > 0 => listener[r] = "moved"
        /\ listener[r] = "driver" <=> pc[r] = "Bound"

C6_Witness ==
    \E r \in Runs : unit[r] = "running" /\ nRun[r] = 1 /\ accepted[r] > 0

\* C7: after bind and construction succeeded the process is terminated only
\* when the server unit has resolved, and then with the unit's outcome: with a
\* server unit that never resolves it stays in the awaiting state; and a
\* server unit that has resolved leads to the process terminating with that
\* outcome.
C7_TerminatesOnlyWhenUnitResolves ==
    /\ [](\A r \in Runs :
            (nRun[r] > 0 /\ env[r].construct = Ok) =>
                /\ env[r].serve = Never => pc[r] = "Awaiting" /\ unit[r] = "running"
                /\ pc[r] = "Terminated" =>
                      unit[r] = "resolved" /\ outcome[r] = unitResult[r])
    /\ \A r \in Runs :
          (unit[r] = "resolved")
              ~> (pc[r] = "Terminated" /\ outcome[r] = env[r].serve)

C7_Witness ==
    \E r1, r2 \in Runs :
        /\ env[r1].serve = Never /\ pc[r1] = "Awaiting"
        /\ accepted[r1] = MaxAccepted
        /\ pc[r2] = "Terminated" /\ unit[r2] = "resolved"

\* C8: every step moves an invocation forward along NotStarted -> Bound ->
\* Terminated (a failed bind going straight to the terminal failure), never
\* back; bind is attempted at most once and run called at most once; a
\* terminated invocation never changes again.
C8_StraightThrough ==
    [][\A r \in Runs :
          /\ Rank(pc'[r]) >= Rank(pc[r])
          /\ <<SpecState(pc[r]), SpecState(pc'[r])>> \in
                {<<"NotStarted", "NotStarted">>, <<"NotStarted", "Bound">>,
                 <<"NotStarted", "Terminated">>, <<"Bound", "Bound">>,
                 <<"Bound", "Terminated">>, <<"Terminated", "Terminated">>}
          /\ (pc[r] = "NotStarted" /\ pc'[r] = "Terminated") => IsFailure(outcome'[r])
          /\ nBind'[r] <= 1
          /\ nRun'[r] <= 1
          /\ pc[r] = "Terminated" =>
                /\ outcome[r] # None
                /\ pc'[r] = "Terminated"
                /\ outcome'[r] = outcome[r]
                /\ trace'[r] = trace[r]
                /\ accepted'[r] = accepted[r]
                /\ nBind'[r] = nBind[r] /\ nRun'[r] = nRun[r]]_vars

C8_Witness ==
    \E r1, r2 \in Runs :
        /\ pc[r1] = "Terminated" /\ outcome[r1].tag = "Err" /\ nRun[r1] = 1
        /\ pc[r2] = "Terminated" /\ outcome[r2].tag = "Panic"

C10_PanicVersusErr ==
    \A r \in Runs :
        /\ BindFailed(r) => outcome[r] = Panic("Failed to bind to port")
        /\ outcome[r].tag = "Panic" => BindFailed(r) /\ nRun[r] = 0
        /\ outcome[r].tag = "Err" =>
              /\ outcome[r].err \in IoError
              /\ env[r].addrFree /\ nListeners[r] = 1 /\ nRun[r] = 1
              /\ ConstructFailed(r) \/ UnitFailed(r)
        /\ (pc[r] = "Terminated" /\ (ConstructFailed(r) \/ UnitFailed(r)))
              => outcome[r].tag = "Err"

C10_Witness ==
    \E r1, r2 \in Runs :
        /\ outcome[r1].tag = "Panic"
        /\ outcome[r2].tag = "Err" /\ ConstructFailed(r2)

====
